---- MODULE Spec2Model ----
(***************************************************************************)
(* Beacon AI backend (server.js, ESM variant): POST /api/analyze, GET /r   *)
(* and GET /health over three Supabase tables (reports, leads, events)     *)
(* and the Resend mail client.                                             *)
(*                                                                         *)
(* Strings are sequences of one-character strings.  A JavaScript value is  *)
(* a record [t, s, n]: its type tag, its characters (strings) and its      *)
(* number (numbers, booleans).                                             *)
(*                                                                         *)
(* The requests in flight and the rows of a table are bags: neither has    *)
(* an order the code can observe.                                          *)
(* A handler runs without interruption between two awaits, so each action  *)
(* is one such stretch: the arrival of a request up to its first await, or *)
(* the settling of an awaited call up to the next await or the response.   *)
(* A table operation takes effect in the step in which it settles.         *)
(* PUBLIC_BACKEND_URL is taken to be a valid URL, so that composing the    *)
(* email bodies does not throw.                                            *)
(***************************************************************************)
EXTENDS Integers, Sequences, FiniteSets, Bags, TLC

\* ------------------------------------------------------------------ values

Undefined == [t |-> "undefined", s |-> <<>>, n |-> 0]
Null      == [t |-> "null", s |-> <<>>, n |-> 0]
Str(s)    == [t |-> "string", s |-> s, n |-> 0]
Num(n)    == [t |-> "number", s |-> <<>>, n |-> n]
Bool(b)   == [t |-> "boolean", s |-> <<>>, n |-> IF b THEN 1 ELSE 0]
NaN       == [t |-> "number", s |-> <<"N", "a", "N">>, n |-> 0]

IsString(v) == v.t = "string"

\* JavaScript truthiness: undefined, null, "", 0 and false are falsy.
Truthy(v) ==
  CASE v.t = "undefined" -> FALSE
    [] v.t = "null"      -> FALSE
    [] v.t = "string"    -> v.s # <<>>
    [] v.t = "number"    -> v.n # 0 /\ v # NaN
    [] OTHER             -> v.n = 1

\* a || b
OrElse(a, b) == IF Truthy(a) THEN a ELSE b

\* a ?? b
Coalesce(a, b) == IF a.t \in {"undefined", "null"} THEN b ELSE a

\* ----------------------------------------------------------------- strings

Whitespace == {" "}

UpperToLower == [c \in {"A", "B", "C", "H", "O", "P", "S", "T", "W"} |->
  CASE c = "A" -> "a" [] c = "B" -> "b" [] c = "C" -> "c" [] c = "H" -> "h"
    [] c = "O" -> "o" [] c = "P" -> "p" [] c = "S" -> "s" [] c = "T" -> "t"
    [] OTHER -> "w"]

LowerChar(c) == IF c \in DOMAIN UpperToLower THEN UpperToLower[c] ELSE c

\* String.prototype.toLowerCase
ToLowerCase(s) == [i \in 1..Len(s) |-> LowerChar(s[i])]

RECURSIVE TrimStart(_)
TrimStart(s) ==
  IF s # <<>> /\ Head(s) \in Whitespace THEN TrimStart(Tail(s)) ELSE s

RECURSIVE TrimEnd(_)
TrimEnd(s) ==
  IF s # <<>> /\ s[Len(s)] \in Whitespace
  THEN TrimEnd(SubSeq(s, 1, Len(s) - 1))
  ELSE s

\* String.prototype.trim
Trim(s) == TrimEnd(TrimStart(s))

\* String.prototype.startsWith
StartsWith(s, p) == Len(s) >= Len(p) /\ SubSeq(s, 1, Len(p)) = p

\* index of the first character of s that lies in the set cs, Len(s)+1 if none
RECURSIVE IndexOfAny(_, _, _)
IndexOfAny(s, cs, i) ==
  IF i > Len(s) THEN Len(s) + 1
  ELSE IF s[i] \in cs THEN i
  ELSE IndexOfAny(s, cs, i + 1)

Count(s, c) == Cardinality({i \in 1..Len(s) : s[i] = c})

Digits == {"0", "1", "2", "3", "4", "5", "6", "7", "8", "9"}

DigitChar(d) ==
  CASE d = 0 -> "0" [] d = 1 -> "1" [] d = 2 -> "2" [] d = 3 -> "3"
    [] d = 4 -> "4" [] d = 5 -> "5" [] d = 6 -> "6" [] d = 7 -> "7"
    [] d = 8 -> "8" [] OTHER -> "9"

RECURSIVE NatToString(_)
NatToString(n) ==
  IF n < 10 THEN <<DigitChar(n)>>
  ELSE NatToString(n \div 10) \o <<DigitChar(n % 10)>>

\* String(v)
ToStr(v) ==
  CASE v.t = "string"    -> v.s
    [] v.t = "number"    -> IF v = NaN THEN NaN.s ELSE NatToString(v.n)
    [] v.t = "boolean"   -> IF v.n = 1 THEN <<"t", "r", "u", "e">>
                            ELSE <<"f", "a", "l", "s", "e">>
    [] v.t = "null"      -> <<"n", "u", "l", "l">>
    [] OTHER             -> <<"u", "n", "d", "e", "f", "i", "n", "e", "d">>

\* HttpPrefixLen for a scheme test that tells upper case from lower case
HttpPrefixLen_CaseSensitive(s) ==
  IF StartsWith(s, <<"h", "t", "t", "p", ":", "/", "/">>) THEN 7
  ELSE IF StartsWith(s, <<"h", "t", "t", "p", "s", ":", "/", "/">>) THEN 8
  ELSE 0

\* /^https?:\/\//i.test(s): the length of the matched scheme prefix, 0 if none
HttpPrefixLen(s) ==
  LET l == ToLowerCase(s) IN
    IF StartsWith(l, <<"h", "t", "t", "p", ":", "/", "/">>) THEN 7
    ELSE IF StartsWith(l, <<"h", "t", "t", "p", "s", ":", "/", "/">>) THEN 8
    ELSE 0

HasHttpPrefix(s) == HttpPrefixLen(s) > 0

\* ------------------------------------------------------------ pure helpers

\* The result of a call that may throw: the value, or the exception.
Returned(v) == [threw |-> FALSE, value |-> v]
Threw       == [threw |-> TRUE, value |-> Undefined]

\* (v || "").trim(): a TypeError when v is truthy and has no trim method
TrimOrThrow(v) ==
  LET x == OrElse(v, Str(<<>>)) IN
    IF IsString(x) THEN Returned(Str(Trim(x.s))) ELSE Threw

\* new URL(url).hostname for a url that carries an http(s):// prefix: the
\* authority ends at the first "/", "?" or "#", the host at the first ":";
\* an empty host, a forbidden host character or a non-numeric port make the
\* constructor throw (<<>> here).  The parser lower-cases the host.
ForbiddenHostChars == {" ", "@"}

UrlHostname(url) ==
  LET rest      == SubSeq(url, HttpPrefixLen(url) + 1, Len(url))
      authEnd   == IndexOfAny(rest, {"/", "?", "#"}, 1)
      authority == SubSeq(rest, 1, authEnd - 1)
      hostEnd   == IndexOfAny(authority, {":"}, 1)
      host      == SubSeq(authority, 1, hostEnd - 1)
      port      == SubSeq(authority, hostEnd + 1, Len(authority))
  IN  IF host = <<>> THEN <<>>
      ELSE IF \E i \in 1..Len(host) : host[i] \in ForbiddenHostChars THEN <<>>
      ELSE IF \E i \in 1..Len(port) : port[i] \notin Digits THEN <<>>
      ELSE ToLowerCase(host)

Www == <<"w", "w", "w", ".">>

\* normalizeUrl without the removal of the leading "www." label
normalizeUrl_KeepWww(input) ==
  LET trimmed == TrimOrThrow(input) IN
    IF trimmed.threw THEN Threw
    ELSE LET url0 == trimmed.value.s
             url  == IF HasHttpPrefix(url0) THEN url0
                     ELSE <<"h", "t", "t", "p", "s", ":", "/", "/">> \o url0
             h    == UrlHostname(url)
         IN  IF url0 = <<>> \/ h = <<>> THEN Returned(Null) ELSE Returned(Str(h))

\* normalizeUrl(input): the host, or null; throws on a truthy non-string
normalizeUrl(input) ==
  LET trimmed == TrimOrThrow(input) IN
    IF trimmed.threw THEN Threw
    ELSE LET url0 == trimmed.value.s
             url  == IF HasHttpPrefix(url0) THEN url0
                     ELSE <<"h", "t", "t", "p", "s", ":", "/", "/">> \o url0
             h    == UrlHostname(url)
             host == IF StartsWith(h, Www) THEN SubSeq(h, 5, Len(h)) ELSE h
         IN  IF url0 = <<>> THEN Returned(Null)
             ELSE IF h = <<>> THEN Returned(Null)
             ELSE Returned(Str(host))

\* hashString(s): the SHA-256 hex digest of s, modelled as an injective tag
\* of its input (equal inputs give equal digests, different inputs different
\* digests; a digest is never its own input).
hashString(s) == <<"#">> \o s

\* isValidEmailFormat(value): /^[^\s@]+@[^\s@]+\.[^\s@]+$/ on the trimmed value
isValidEmailFormat(value) ==
  LET email == Trim(OrElse(value, Str(<<>>)).s)
      at    == IndexOfAny(email, {"@"}, 1)
  IN  /\ \A i \in 1..Len(email) : email[i] \notin Whitespace
      /\ Count(email, "@") = 1
      /\ at >= 2
      /\ \E i \in (at + 2)..(Len(email) - 1) : email[i] = "."

\* email.split("@")[1] of emailHasMx: the text between the first and the
\* second "@" (<<>> when there is no "@")
EmailDomain(value) ==
  LET email == ToLowerCase(Trim(OrElse(value, Str(<<>>)).s))
      at    == IndexOfAny(email, {"@"}, 1)
      rest  == SubSeq(email, at + 1, Len(email))
  IN  SubSeq(rest, 1, IndexOfAny(rest, {"@"}, 1) - 1)

\* safeString(v): String(v || "").trim()
safeString(v) == Trim(ToStr(OrElse(v, Str(<<>>))))

\* ---------------------------------------------------------- recommendation

\* Number(v) for the values a score can take; Number(null) is 0,
\* Number(undefined) is NaN, a string is its decimal value or NaN.
RECURSIVE DigitsValue(_)
DigitsValue(s) ==
  IF s = <<>> THEN 0
  ELSE 10 * DigitsValue(SubSeq(s, 1, Len(s) - 1))
       + (CHOOSE d \in 0..9 : DigitChar(d) = s[Len(s)])

ToNumber(v) ==
  CASE v.t = "number"    -> v
    [] v.t = "null"      -> Num(0)
    [] v.t = "boolean"   -> Num(v.n)
    [] v.t = "string"    -> IF \A i \in 1..Len(Trim(v.s)) : Trim(v.s)[i] \in Digits
                            THEN Num(DigitsValue(Trim(v.s)))
                            ELSE NaN
    [] OTHER             -> NaN

\* Number.isFinite
IsFinite(v) == v.t = "number" /\ v # NaN

Starter  == <<"S", "t", "a", "r", "t", "e", "r">>
Business == <<"B", "u", "s", "i", "n", "e", "s", "s">>
Premium  == <<"P", "r", "e", "m", "i", "u", "m">>

DiscountCode == <<"B", "E", "A", "C", "O", "N", "1", "5">>

\* the packages table of recommendPackageFromReport
PackageName(tier) ==
  IF tier = Starter THEN "Starter Website"
  ELSE IF tier = Business THEN "Business Website"
  ELSE "Premium Website"

PackagePrice(tier) ==
  IF tier = Starter THEN 299 ELSE IF tier = Business THEN 499 ELSE 899

\* calcDiscountedPrice rounding to whole dollars
calcDiscountedPrice_WholeDollars(price, discountPercent) ==
  ((price * (100 - discountPercent) + 50) \div 100) * 100

\* calcDiscountedPrice(price, discountPercent), in cents:
\* Math.round(p * (1 - d / 100) * 100), halves rounded up
calcDiscountedPrice(price, discountPercent) ==
  (price * (100 - discountPercent) * 10 + 5) \div 10

\* TierOfScore with the Starter threshold excluded from Starter
TierOfScore_Above85(scoreValue) ==
  LET score == ToNumber(scoreValue) IN
    IF IsFinite(score)
    THEN IF score.n > 85 THEN Starter
         ELSE IF score.n >= 60 THEN Business
         ELSE Premium
    ELSE Business

TierOfScore(scoreValue) ==
  LET score == ToNumber(scoreValue) IN
    IF IsFinite(score)
    THEN IF score.n >= 85 THEN Starter
         ELSE IF score.n >= 60 THEN Business
         ELSE Premium
    ELSE Business

PackageBullets(tier) ==
  IF tier = Starter
  THEN <<"Clean, modern single page layout",
         "Clear call to action and lead capture",
         "Mobile friendly layout and basic performance cleanup",
         "Perfect for simple service businesses">>
  ELSE IF tier = Business
  THEN <<"Multi section or small multi page structure",
         "Conversion focused layout with strong calls to action",
         "Basic SEO setup and on page improvements",
         "Ideal for most local businesses">>
  ELSE <<"Full custom build with multiple pages and strategy",
         "Stronger SEO foundation and content structure",
         "Performance and accessibility improvements",
         "Best for competitive niches and scaling">>

UrgencyLine == "Book within 48 hours to claim the discount."

\* recommendPackageFromReport that recommends for scored reports only when
\* they carry a summary
recommendPackageFromReport_NeedsSummary(report) ==
  LET tier == IF report.summary = Null THEN Business ELSE TierOfScore(report.score) IN
    [tier            |-> tier,
     packageName     |-> PackageName(tier),
     price           |-> PackagePrice(tier),
     discountPercent |-> 15,
     discountedPrice |-> calcDiscountedPrice(PackagePrice(tier), 15),
     code            |-> DiscountCode,
     urgencyLine     |-> UrgencyLine,
     bullets         |-> PackageBullets(tier)]

\* recommendPackageFromReport(report)
recommendPackageFromReport(report) ==
  LET tier == TierOfScore(report.score) IN
    [tier            |-> tier,
     packageName     |-> PackageName(tier),
     price           |-> PackagePrice(tier),
     discountPercent |-> 15,
     discountedPrice |-> calcDiscountedPrice(PackagePrice(tier), 15),
     code            |-> DiscountCode,
     urgencyLine     |-> UrgencyLine,
     bullets         |-> PackageBullets(tier)]

\* -------------------------------------------------------------- the inputs

\* the number of HTTP requests the server receives in one run
MaxReqs == 2

EmailA    == <<"a", "@", "b", ".", "c">>
EmailARaw == <<" ", "A", "@", "b", ".", "c">>
EmailBad  == <<"a", "@", "b">>

SiteA        == <<"a", ".", "c", "o">>
SiteAVariant == <<"H", "T", "T", "P", ":", "/", "/", "W", "W", "W", ".", "A", ".", "C", "O">>
SiteB        == <<"b", ".", "c", "o">>
SiteBlank    == <<" ", " ">>
SiteBad      == <<"a", " ", "b">>

\* req.body of POST /api/analyze
Body(email, website, refresh, businessName, name) ==
  [email |-> email, website |-> website, refresh |-> refresh,
   businessName |-> businessName, business_name |-> Undefined, name |-> name]

Bodies ==
  { Body(Undefined, Undefined, Undefined, Undefined, Undefined),
    Body(Str(EmailA), Undefined, Undefined, Undefined, Undefined),
    Body(Str(EmailBad), Str(SiteBad), Undefined, Undefined, Undefined),
    Body(Str(EmailA), Str(SiteBlank), Undefined, Undefined, Undefined),
    Body(Str(EmailA), Str(SiteBad), Bool(TRUE), Undefined, Undefined),
    Body(Undefined, Str(SiteA), Undefined, Num(5), Undefined),
    Body(Str(EmailA), Str(SiteA), Bool(TRUE), Undefined, Undefined),
    Body(Str(EmailARaw), Str(SiteAVariant), Str(<<"y">>), Str(<<" ", "B", "o">>),
         Str(<<"A", "l", " ">>)),
    Body(Str(EmailA), Str(SiteB), Bool(FALSE), Str(<<" ">>), Num(7)) }

DestOk      == <<"h", "t", "t", "p", "s", ":", "/", "/", "e", ".", "c", "o">>
DestUpper   == <<"H", "T", "T", "P", ":", "/", "/", "e", ".", "c", "o">>
DestPadded  == <<" ", "h", "t", "t", "p", ":", "/", "/", "e", ".", "c", "o">>
DestScript  == <<"j", "a", "v", "a", "s", "c", "r", "i", "p", "t", ":", "a", "(", "1", ")">>
DestNoSlash == <<"h", "t", "t", "p", ":", "e", ".", "c", "o">>
DestBlank   == <<" ">>
DestTrailed == <<"h", "t", "t", "p", ":", "/", "/", "e", ".", "c", "o", " ">>

\* req.query of GET /r and the two request headers the handler reads
Query(to, e, h, d, t, userAgent, referer) ==
  [to |-> to, e |-> e, h |-> h, d |-> d, t |-> t,
   userAgent |-> userAgent, referer |-> referer]

\* PUBLIC_BACKEND_URL, by default
PublicBackendUrl ==
  <<"h", "t", "t", "p", ":", "/", "/", "l", "o", "c", "a", "l", "h", "o", "s", "t",
    ":", "3", "0", "0", "1">>

\* a URL: what precedes the "?", and the query parameters
Href(base, query) == [base |-> base, query |-> query]

\* buildTrackedUrl({ to, eventType, report, rec }): /r on the public backend
\* with the parameters to, e, h, d and t
buildTrackedUrl(to, eventType, report, rec) ==
  Href(PublicBackendUrl \o <<"/", "r">>,
       Query(Str(to), Str(eventType),
             OrElse(Str(report.url_hash), Str(<<>>)),
             OrElse(Str(report.domain), Str(<<>>)),
             OrElse(Str(rec.tier), Str(<<>>)),
             Undefined, Undefined))

\* how URLSearchParams writes a character of a value: a space as "+", a
\* character outside A-Z a-z 0-9 * - . _ as its percent code
PercentCode(c) ==
  CASE c = " " -> <<"+">>
    [] c = "#" -> <<"%", "2", "3">>
    [] c = "%" -> <<"%", "2", "5">>
    [] c = "&" -> <<"%", "2", "6">>
    [] c = "(" -> <<"%", "2", "8">>
    [] c = ")" -> <<"%", "2", "9">>
    [] c = "+" -> <<"%", "2", "B">>
    [] c = "/" -> <<"%", "2", "F">>
    [] c = ":" -> <<"%", "3", "A">>
    [] c = "=" -> <<"%", "3", "D">>
    [] c = "?" -> <<"%", "3", "F">>
    [] c = "@" -> <<"%", "4", "0">>
    [] OTHER   -> <<c>>

Escaped == {"#", "%", "&", "(", ")", "+", "/", ":", "=", "?", "@"}

RECURSIVE Encode(_)
Encode(s) == IF s = <<>> THEN <<>> ELSE PercentCode(Head(s)) \o Encode(Tail(s))

\* UrlToString without the encoding of the values
UrlToString_Unencoded(href) ==
  LET q == href.query
  IN  href.base \o <<"?", "t", "o", "=">> \o q.to.s
        \o <<"&", "e", "=">> \o q.e.s
        \o <<"&", "h", "=">> \o q.h.s
        \o <<"&", "d", "=">> \o q.d.s
        \o <<"&", "t", "=">> \o q.t.s

\* u.toString(): the base, "?" and the parameters to, e, h, d and t as
\* searchParams.set encoded them
UrlToString(href) ==
  LET q == href.query
  IN  href.base \o <<"?", "t", "o", "=">> \o Encode(q.to.s)
        \o <<"&", "e", "=">> \o Encode(q.e.s)
        \o <<"&", "h", "=">> \o Encode(q.h.s)
        \o <<"&", "d", "=">> \o Encode(q.d.s)
        \o <<"&", "t", "=">> \o Encode(q.t.s)

\* the text before and after the first occurrence of a character
Before(s, c) ==
  IF \E i \in 1..Len(s) : s[i] = c
  THEN SubSeq(s, 1, (CHOOSE i \in 1..Len(s) : s[i] = c /\ \A j \in 1..(i - 1) : s[j] # c) - 1)
  ELSE s

After(s, c) ==
  IF \E i \in 1..Len(s) : s[i] = c
  THEN SubSeq(s, (CHOOSE i \in 1..Len(s) : s[i] = c /\ \A j \in 1..(i - 1) : s[j] # c) + 1,
              Len(s))
  ELSE <<>>

RECURSIVE Split(_, _)
Split(s, sep) ==
  IF \E i \in 1..Len(s) : s[i] = sep
  THEN <<Before(s, sep)>> \o Split(After(s, sep), sep)
  ELSE <<s>>

\* the query parser on a value: "+" is a space, %XX the character it codes
RECURSIVE Decode(_)
Decode(s) ==
  IF s = <<>> THEN <<>>
  ELSE IF s[1] = "+" THEN <<" ">> \o Decode(Tail(s))
  ELSE IF Len(s) >= 3 /\ \E c \in Escaped : PercentCode(c) = SubSeq(s, 1, 3)
    THEN <<CHOOSE c \in Escaped : PercentCode(c) = SubSeq(s, 1, 3)>>
           \o Decode(SubSeq(s, 4, Len(s)))
  ELSE <<s[1]>> \o Decode(Tail(s))

\* req.query of the request for a URL: the parameters between "?" and "#",
\* separated by "&", each a name, "=" and a value
reqQuery(url) ==
  LET pairs      == Split(Before(After(url, "?"), "#"), "&")
      named(key) == {i \in 1..Len(pairs) : Before(pairs[i], "=") = key}
      param(key) == IF named(key) = {} THEN Undefined
                    ELSE Str(Decode(After(pairs[CHOOSE i \in named(key) :
                                                  \A j \in named(key) : i <= j], "=")))
  IN  Query(param(<<"t", "o">>), param(<<"e">>), param(<<"h">>), param(<<"d">>),
            param(<<"t">>), Undefined, Undefined)

\* what a tracked link is built from
Link(to, eventType, report, rec) ==
  [to |-> to, eventType |-> eventType, report |-> report, rec |-> rec]

\* the link of the report of site A and its recommendation, and a link with a
\* padded destination and event type for a report without fingerprint
LinkOk ==
  LET report == [url_hash |-> hashString(SiteA), domain |-> SiteA, score |-> Num(65)]
  IN  Link(DestOk, <<"c", "t", "a">>, report, recommendPackageFromReport(report))

LinkTrailed ==
  Link(DestTrailed, <<"c", " ">>, [url_hash |-> <<>>, domain |-> <<>>, score |-> Num(65)],
       [tier |-> <<>>])

\* req.query and the headers of the GET /r request of a visitor who follows
\* the link
Follow(link, userAgent, referer) ==
  [reqQuery(UrlToString(buildTrackedUrl(link.to, link.eventType, link.report, link.rec)))
     EXCEPT !.userAgent = userAgent, !.referer = referer]

Queries ==
  { Query(Undefined, Undefined, Undefined, Undefined, Undefined, Undefined, Undefined),
    Query(Str(DestBlank), Str(<<"c">>), Undefined, Undefined, Undefined, Undefined, Undefined),
    Query(Str(DestScript), Undefined, Str(hashString(SiteA)), Str(SiteA), Str(Business),
          Str(<<"u", "a">>), Undefined),
    Query(Str(DestNoSlash), Undefined, Undefined, Undefined, Undefined, Undefined, Undefined),
    Follow(LinkOk, Str(<<"u", "a">>), Str(<<"r", "e", "f">>)),
    Query(Str(DestUpper), Str(<<" ">>), Undefined, Str(SiteB), Undefined, Undefined, Undefined),
    Query(Str(DestPadded), Undefined, Undefined, Undefined, Undefined, Undefined, Undefined),
    Follow(LinkTrailed, Undefined, Undefined) }

\* what resolveMx can do: return records, return none, reject
MxOutcomes == {"records", "empty", "error"}

\* what a Supabase call can do: succeed, return {error}, reject
DbOutcomes == {"ok", "error", "threw"}

\* what resend.emails.send can do: resolve, reject
SendOutcomes == {"ok", "threw"}

\* ---------------------------------------------------------------- the state

VARIABLES
  urlHashUnique,     \* the reports table has a unique index on url_hash
  resendConfigured,  \* resend && EMAIL_FROM
  reports,           \* the rows of beacon_ai
  leads,             \* the rows of beacon_ai_leads
  events,            \* the rows of beacon_ai_events
  outbox,            \* the calls of resend.emails.send
  reqs,              \* the requests received, answered or not
  call               \* a helper function applied on its own: argument and result

vars == <<urlHashUnique, resendConfigured, reports, leads, events, outbox, reqs, call>>

tables == <<reports, leads, events>>
config == <<urlHashUnique, resendConfigured>>

\* a bag with one more copy of x
Add(B, x) == B (+) SetToBag({x})

\* a bag with one copy of x replaced by y
Replace(B, x, y) == (B (-) SetToBag({x})) (+) SetToBag({y})

NoReport == [url_hash |-> <<>>, domain |-> <<>>, score |-> Undefined, summary |-> Undefined]

FakeSummary == <<"S", "o", "l", "i", "d">>

NoResponse == [status |-> 0, cached |-> FALSE, report |-> NoReport,
               error |-> "", location |-> <<>>]

\* a request: its input, where its handler is suspended, the handler's
\* locals, its response, and what it has done so far
NewRequest(kind, input) ==
  [kind |-> kind, input |-> input, pc |-> "start",
   cleanEmail |-> <<>>, finalBusinessName |-> <<>>, normalized |-> <<>>,
   urlHash |-> <<>>, report |-> NoReport, cached |-> FALSE,
   to |-> <<>>, eventType |-> <<>>,
   resp |-> NoResponse, responses |-> 0,
   mx |-> "none", lookup |-> "none", insert |-> "none", lead |-> "none",
   send |-> "none", event |-> "none", sendCalls |-> 0,
   reportWrites |-> 0, leadWrites |-> 0, eventWrites |-> 0]

\* res.status(s).json(...) / res.redirect(...): the handler returns
Respond(q, status, cached, report, error, location) ==
  [q EXCEPT !.pc = "done",
            !.resp = [status |-> status, cached |-> cached, report |-> report,
                      error |-> error, location |-> location],
            !.responses = @ + 1]

Respond400(q, error) == Respond(q, 400, FALSE, NoReport, error, <<>>)
Respond500(q, error) == Respond(q, 500, FALSE, NoReport, error, <<>>)

\* no helper is applied on its own while the server runs
NoCall ==
  [fn |-> "none", arg |-> Undefined, done |-> FALSE, result |-> Undefined,
   again |-> FALSE, previous |-> Undefined]

Init ==
  /\ urlHashUnique \in BOOLEAN
  /\ resendConfigured \in BOOLEAN
  /\ reports = EmptyBag
  /\ leads = EmptyBag
  /\ events = EmptyBag
  /\ outbox = EmptyBag
  /\ reqs = EmptyBag
  /\ call = NoCall

\* ------------------------------------------------------- POST /api/analyze

\* res.json({ ok: true, cached, report })
RespondReport(q) == Respond(q, 200, q.cached, q.report, "", <<>>)

\* CallSendEmail without the check that the mail client is configured
CallSendEmail_NoConfigCheck(q) ==
  LET q1 == [q EXCEPT !.sendCalls = @ + 1] IN
    IF q1.cleanEmail = <<>>
    THEN RespondReport([q1 EXCEPT !.send = "skipped"])
    ELSE [q1 EXCEPT !.pc = "send"]

\* sendBeaconReportEmail up to its await: nothing to do without a recipient
\* or without a configured mail client, else resend.emails.send is called
CallSendEmail(q) ==
  LET q1 == [q EXCEPT !.sendCalls = @ + 1] IN
    IF q1.cleanEmail = <<>> \/ ~resendConfigured
    THEN RespondReport([q1 EXCEPT !.send = "skipped"])
    ELSE [q1 EXCEPT !.pc = "send"]

\* AfterSaveLead that never mails a cached report again
AfterSaveLead_NeverResend(q) ==
  IF q.cached
  THEN RespondReport(q)
  ELSE CallSendEmail(q)

\* AfterSaveLead that takes any truthy refresh for a request to mail again
AfterSaveLead_TruthyRefresh(q) ==
  IF q.cached /\ ~Truthy(q.input.refresh)
  THEN RespondReport(q)
  ELSE CallSendEmail(q)

\* after saveLead: the cached report is mailed again only when refresh === true,
\* a fresh report is always mailed
AfterSaveLead(q) ==
  IF q.cached /\ q.input.refresh # Bool(TRUE)
  THEN RespondReport(q)
  ELSE CallSendEmail(q)

UnknownBusiness ==
  <<"U", "n", "k", "n", "o", "w", "n", " ", "B", "u", "s", "i", "n", "e", "s", "s">>

\* LeadRow with a longer deadline for the most expensive package
LeadRow_TierDeadline(q) ==
  LET rec == recommendPackageFromReport(q.report) IN
    [email                        |-> q.cleanEmail,
     business_name                |-> OrElse(Str(Trim(q.finalBusinessName)),
                                             Str(UnknownBusiness)),
     contact_name                 |-> OrElse(TrimOrThrow(q.input.name).value, Null),
     domain                       |-> q.normalized,
     url_hash                     |-> q.urlHash,
     score                        |-> Coalesce(q.report.score, Null),
     summary                      |-> Coalesce(q.report.summary, Null),
     recommended_tier             |-> rec.tier,
     recommended_package_name     |-> rec.packageName,
     recommended_price            |-> rec.price,
     recommended_discount_percent |-> rec.discountPercent,
     recommended_discounted_price |-> rec.discountedPrice,
     discount_code                |-> rec.code,
     discount_deadline_hours      |-> IF rec.tier = Premium THEN 72 ELSE 48]

\* LeadRow that leaves the score to be looked up in the report
LeadRow_NoScore(q) ==
  LET rec == recommendPackageFromReport(q.report) IN
    [email                        |-> q.cleanEmail,
     business_name                |-> OrElse(Str(Trim(q.finalBusinessName)),
                                             Str(UnknownBusiness)),
     contact_name                 |-> OrElse(TrimOrThrow(q.input.name).value, Null),
     domain                       |-> q.normalized,
     url_hash                     |-> q.urlHash,
     score                        |-> Null,
     summary                      |-> Coalesce(q.report.summary, Null),
     recommended_tier             |-> rec.tier,
     recommended_package_name     |-> rec.packageName,
     recommended_price            |-> rec.price,
     recommended_discount_percent |-> rec.discountPercent,
     recommended_discounted_price |-> rec.discountedPrice,
     discount_code                |-> rec.code,
     discount_deadline_hours      |-> 48]

\* LeadRow with the sentinel for a blank contact name too
LeadRow_SentinelContact(q) ==
  LET rec == recommendPackageFromReport(q.report) IN
    [email                        |-> q.cleanEmail,
     business_name                |-> OrElse(Str(Trim(q.finalBusinessName)),
                                             Str(UnknownBusiness)),
     contact_name                 |-> OrElse(TrimOrThrow(q.input.name).value,
                                             Str(UnknownBusiness)),
     domain                       |-> q.normalized,
     url_hash                     |-> q.urlHash,
     score                        |-> Coalesce(q.report.score, Null),
     summary                      |-> Coalesce(q.report.summary, Null),
     recommended_tier             |-> rec.tier,
     recommended_package_name     |-> rec.packageName,
     recommended_price            |-> rec.price,
     recommended_discount_percent |-> rec.discountPercent,
     recommended_discounted_price |-> rec.discountedPrice,
     discount_code                |-> rec.code,
     discount_deadline_hours      |-> 48]

\* the row saveLead inserts
LeadRow(q) ==
  LET rec == recommendPackageFromReport(q.report) IN
    [email                        |-> q.cleanEmail,
     business_name                |-> OrElse(Str(Trim(q.finalBusinessName)),
                                             Str(UnknownBusiness)),
     contact_name                 |-> OrElse(TrimOrThrow(q.input.name).value, Null),
     domain                       |-> q.normalized,
     url_hash                     |-> q.urlHash,
     score                        |-> Coalesce(q.report.score, Null),
     summary                      |-> Coalesce(q.report.summary, Null),
     recommended_tier             |-> rec.tier,
     recommended_package_name     |-> rec.packageName,
     recommended_price            |-> rec.price,
     recommended_discount_percent |-> rec.discountPercent,
     recommended_discounted_price |-> rec.discountedPrice,
     discount_code                |-> rec.code,
     discount_deadline_hours      |-> 48]

\* saveLead up to its await: building the row throws inside the try block
\* when name has no trim method, and then nothing is inserted
CallSaveLead(q) ==
  IF TrimOrThrow(q.input.name).threw
  THEN AfterSaveLead([q EXCEPT !.lead = "exception"])
  ELSE [q EXCEPT !.pc = "lead"]

\* StartAnalyze that looks at the website before the format of the email
StartAnalyze_WebsiteFirst(q) ==
  LET b       == q.input
      finalBn == TrimOrThrow(OrElse(OrElse(b.businessName, b.business_name), Str(<<>>)))
      clean   == ToLowerCase(Trim(ToStr(b.email)))
  IN  IF finalBn.threw THEN Respond500(q, "exception")
      ELSE IF ~Truthy(b.email) \/ ~Truthy(b.website) THEN Respond400(q, "required")
      ELSE IF ~Truthy(normalizeUrl(b.website).value) THEN Respond400(q, "invalid_url")
      ELSE IF ~isValidEmailFormat(Str(clean)) THEN Respond400(q, "invalid_email")
      ELSE IF EmailDomain(Str(clean)) = <<>> THEN Respond400(q, "unreachable_domain")
      ELSE [q EXCEPT !.pc = "mx", !.cleanEmail = clean,
                     !.finalBusinessName = finalBn.value.s]

\* the handler from its first line to the await of emailHasMx
StartAnalyze(q) ==
  LET b       == q.input
      finalBn == TrimOrThrow(OrElse(OrElse(b.businessName, b.business_name), Str(<<>>)))
      clean   == ToLowerCase(Trim(ToStr(b.email)))
  IN  IF finalBn.threw THEN Respond500(q, "exception")
      ELSE IF ~Truthy(b.email) \/ ~Truthy(b.website) THEN Respond400(q, "required")
      ELSE IF ~isValidEmailFormat(Str(clean)) THEN Respond400(q, "invalid_email")
      ELSE IF EmailDomain(Str(clean)) = <<>> THEN Respond400(q, "unreachable_domain")
      ELSE [q EXCEPT !.pc = "mx", !.cleanEmail = clean,
                     !.finalBusinessName = finalBn.value.s]

\* a POST /api/analyze request arrives
ReceiveAnalyze(body) ==
  /\ BagCardinality(reqs) < MaxReqs
  /\ reqs' = Add(reqs, StartAnalyze(NewRequest("analyze", body)))
  /\ UNCHANGED <<config, call, tables, outbox>>

\* AfterMx with emailHasMx lacking its catch: a resolver error reaches the
\* handler's catch block
AfterMx_Propagate(q, outcome) ==
  LET q1 == [q EXCEPT !.mx = outcome]
      n  == normalizeUrl(q.input.website)
  IN  IF outcome = "error" THEN Respond500(q1, "exception")
      ELSE IF outcome # "records" THEN Respond400(q1, "unreachable_domain")
      ELSE IF n.threw THEN Respond500(q1, "exception")
      ELSE IF ~Truthy(n.value) THEN Respond400(q1, "invalid_url")
      ELSE [q1 EXCEPT !.pc = "lookup", !.normalized = n.value.s,
                      !.urlHash = hashString(n.value.s)]

\* resolveMx settles: emailHasMx returns, the website is normalized and the
\* cache lookup is issued
AfterMx(q, outcome) ==
  LET q1 == [q EXCEPT !.mx = outcome]
      n  == normalizeUrl(q.input.website)
  IN  IF outcome # "records" THEN Respond400(q1, "unreachable_domain")
      ELSE IF n.threw THEN Respond500(q1, "exception")
      ELSE IF ~Truthy(n.value) THEN Respond400(q1, "invalid_url")
      ELSE [q1 EXCEPT !.pc = "lookup", !.normalized = n.value.s,
                      !.urlHash = hashString(n.value.s)]

MxReturn(q, outcome) ==
  /\ q.pc = "mx"
  /\ reqs' = Replace(reqs, q, AfterMx(q, outcome))
  /\ UNCHANGED <<config, call, tables, outbox>>

\* select("*").eq("url_hash", urlHash): the matching rows, and their number
Matching(urlHash) == {row \in BagToSet(reports) : row.url_hash = urlHash}

RECURSIVE Copies(_, _)
Copies(B, S) ==
  IF S = {} THEN 0
  ELSE LET x == CHOOSE y \in S : TRUE IN CopiesIn(x, B) + Copies(B, S \ {x})

MatchCount(urlHash) == Copies(reports, Matching(urlHash))

\* FreshReport that stores the website as the visitor typed it
FreshReport_AsTyped(q) ==
  [url_hash |-> q.urlHash, domain |-> q.input.website.s,
   score |-> Num(65), summary |-> Str(FakeSummary)]

\* the report of the fake analysis
FreshReport(q) ==
  [url_hash |-> q.urlHash, domain |-> q.normalized,
   score |-> Num(65), summary |-> Str(FakeSummary)]

\* AfterLookup that serves a fresh report without storing it
AfterLookup_SkipInsert(q, outcome) ==
  IF outcome = "threw" THEN Respond500([q EXCEPT !.lookup = "threw"], "exception")
  ELSE IF outcome = "error" THEN Respond500([q EXCEPT !.lookup = "error"], "storage")
  ELSE IF MatchCount(q.urlHash) > 1
    THEN Respond500([q EXCEPT !.lookup = "multiple"], "storage")
  ELSE IF MatchCount(q.urlHash) = 1
    THEN CallSaveLead([q EXCEPT !.lookup = "hit", !.cached = TRUE,
                                !.report = CHOOSE row \in Matching(q.urlHash) : TRUE])
  ELSE CallSaveLead([q EXCEPT !.lookup = "miss", !.report = FreshReport(q)])

\* AfterLookup that analyzes and inserts again when the report is cached
AfterLookup_Reinsert(q, outcome) ==
  IF outcome = "threw" THEN Respond500([q EXCEPT !.lookup = "threw"], "exception")
  ELSE IF outcome = "error" THEN Respond500([q EXCEPT !.lookup = "error"], "storage")
  ELSE IF MatchCount(q.urlHash) > 1
    THEN Respond500([q EXCEPT !.lookup = "multiple"], "storage")
  ELSE [q EXCEPT !.lookup = IF MatchCount(q.urlHash) = 1 THEN "hit" ELSE "miss",
                 !.cached = MatchCount(q.urlHash) = 1, !.pc = "insert",
                 !.report = FreshReport(q)]

\* the cache lookup settles; maybeSingle() reports more than one row as an error
AfterLookup(q, outcome) ==
  IF outcome = "threw" THEN Respond500([q EXCEPT !.lookup = "threw"], "exception")
  ELSE IF outcome = "error" THEN Respond500([q EXCEPT !.lookup = "error"], "storage")
  ELSE IF MatchCount(q.urlHash) > 1
    THEN Respond500([q EXCEPT !.lookup = "multiple"], "storage")
  ELSE IF MatchCount(q.urlHash) = 1
    THEN CallSaveLead([q EXCEPT !.lookup = "hit", !.cached = TRUE,
                                !.report = CHOOSE row \in Matching(q.urlHash) : TRUE])
  ELSE [q EXCEPT !.lookup = "miss", !.pc = "insert", !.report = FreshReport(q)]

LookupReturn(q, outcome) ==
  /\ q.pc = "lookup"
  /\ reqs' = Replace(reqs, q, AfterLookup(q, outcome))
  /\ UNCHANGED <<config, call, tables, outbox>>

\* the table rejects a second row with a url_hash it holds, when it has the index
InsertConflict(row) == urlHashUnique /\ Matching(row.url_hash) # {}

\* what insert(report) does at the table
InsertResult(row, outcome) ==
  IF outcome = "ok" /\ InsertConflict(row) THEN "conflict" ELSE outcome

\* AfterInsert without the insertErr check
AfterInsert_IgnoreError(q, result) ==
  IF result = "threw" THEN Respond500([q EXCEPT !.insert = result], "exception")
  ELSE CallSaveLead([q EXCEPT !.insert = result,
                              !.reportWrites = IF result = "ok" THEN @ + 1 ELSE @])

\* the insert of the fresh report settles
AfterInsert(q, result) ==
  IF result = "threw" THEN Respond500([q EXCEPT !.insert = result], "exception")
  ELSE IF result # "ok" THEN Respond500([q EXCEPT !.insert = result], "storage")
  ELSE CallSaveLead([q EXCEPT !.insert = "ok", !.reportWrites = @ + 1])

InsertReturn(q, outcome) ==
  LET result == InsertResult(q.report, outcome) IN
    /\ q.pc = "insert"
    /\ reports' = IF result = "ok" THEN Add(reports, q.report) ELSE reports
    /\ reqs' = Replace(reqs, q, AfterInsert(q, result))
    /\ UNCHANGED <<config, call, leads, events, outbox>>

\* AfterLeadInsert with a lead failure aborting the request
AfterLeadInsert_Abort(q, outcome) ==
  IF outcome = "ok"
  THEN AfterSaveLead([q EXCEPT !.lead = outcome, !.leadWrites = @ + 1])
  ELSE Respond500([q EXCEPT !.lead = outcome], "storage")

\* the insert of the lead settles; a failure is logged and nothing else
AfterLeadInsert(q, outcome) ==
  AfterSaveLead([q EXCEPT !.lead = outcome,
                          !.leadWrites = IF outcome = "ok" THEN @ + 1 ELSE @])

LeadReturn(q, outcome) ==
  /\ q.pc = "lead"
  /\ leads' = IF outcome = "ok" THEN Add(leads, LeadRow(q)) ELSE leads
  /\ reqs' = Replace(reqs, q, AfterLeadInsert(q, outcome))
  /\ UNCHANGED <<config, call, reports, events, outbox>>

\* AfterSend with a rejected send reaching the handler's catch
AfterSend_Propagate(q, outcome) ==
  IF outcome = "threw"
  THEN Respond500([q EXCEPT !.send = outcome], "exception")
  ELSE RespondReport([q EXCEPT !.send = outcome])

\* sendBeaconReportEmail returns: a rejected send is caught and logged, the
\* handler answers with the report
AfterSend(q, outcome) == RespondReport([q EXCEPT !.send = outcome])

\* resend.emails.send settles
SendReturn(q, outcome) ==
  /\ q.pc = "send"
  /\ outbox' = Add(outbox, [to |-> q.cleanEmail, url_hash |-> q.report.url_hash,
                            outcome |-> outcome])
  /\ reqs' = Replace(reqs, q, AfterSend(q, outcome))
  /\ UNCHANGED <<config, call, tables>>

\* ------------------------------------------------------------------ GET /r

NullIfEmpty(s) == IF s = <<>> THEN Null ELSE Str(s)

\* EventRow with the e parameter stored in the email column
EventRow_WithEmail(q) ==
  [event_type       |-> q.eventType,
   email            |-> NullIfEmpty(safeString(q.input.e)),
   url_hash         |-> NullIfEmpty(safeString(q.input.h)),
   domain           |-> NullIfEmpty(safeString(q.input.d)),
   recommended_tier |-> NullIfEmpty(safeString(q.input.t)),
   meta             |-> [user_agent |-> OrElse(q.input.userAgent, Null),
                         referer    |-> OrElse(q.input.referer, Null)]]

\* the row logEvent inserts
EventRow(q) ==
  [event_type       |-> q.eventType,
   email            |-> Null,
   url_hash         |-> NullIfEmpty(safeString(q.input.h)),
   domain           |-> NullIfEmpty(safeString(q.input.d)),
   recommended_tier |-> NullIfEmpty(safeString(q.input.t)),
   meta             |-> [user_agent |-> OrElse(q.input.userAgent, Null),
                         referer    |-> OrElse(q.input.referer, Null)]]

Click == <<"c", "l", "i", "c", "k">>

\* StartRedirect that only checks that a destination is present
StartRedirect_AnyScheme(q) ==
  LET to        == safeString(q.input.to)
      eventType == OrElse(Str(safeString(q.input.e)), Str(Click)).s
  IN  IF to = <<>>
      THEN Respond(q, 400, FALSE, NoReport, "bad_redirect", <<>>)
      ELSE [q EXCEPT !.pc = "event", !.to = to, !.eventType = eventType]

\* StartRedirect that redirects at once, without logging the event
StartRedirect_NoLog(q) ==
  LET to        == safeString(q.input.to)
      eventType == OrElse(Str(safeString(q.input.e)), Str(Click)).s
  IN  IF to = <<>> \/ ~HasHttpPrefix(to)
      THEN Respond(q, 400, FALSE, NoReport, "bad_redirect", <<>>)
      ELSE Respond([q EXCEPT !.to = to, !.eventType = eventType],
                   302, FALSE, NoReport, "", to)

\* the handler from its first line to the await of logEvent
StartRedirect(q) ==
  LET to        == safeString(q.input.to)
      eventType == OrElse(Str(safeString(q.input.e)), Str(Click)).s
  IN  IF to = <<>> \/ ~HasHttpPrefix(to)
      THEN Respond(q, 400, FALSE, NoReport, "bad_redirect", <<>>)
      ELSE [q EXCEPT !.pc = "event", !.to = to, !.eventType = eventType]

\* a GET /r request arrives
ReceiveRedirect(query) ==
  /\ BagCardinality(reqs) < MaxReqs
  /\ reqs' = Add(reqs, StartRedirect(NewRequest("redirect", query)))
  /\ UNCHANGED <<config, call, tables, outbox>>

\* res.redirect(302, to)
RespondRedirect(q) == Respond(q, 302, FALSE, NoReport, "", q.to)

\* AfterEvent with logEvent letting a failed insert reach the handler's catch
AfterEvent_Abort(q, outcome) ==
  IF outcome = "ok"
  THEN RespondRedirect([q EXCEPT !.event = outcome, !.eventWrites = @ + 1])
  ELSE Respond([q EXCEPT !.event = outcome], 500, FALSE, NoReport, "exception", <<>>)

\* AfterEvent that logs the event again until the insert succeeds
AfterEvent_Retry(q, outcome) ==
  IF outcome = "ok"
  THEN RespondRedirect([q EXCEPT !.event = outcome, !.eventWrites = @ + 1])
  ELSE [q EXCEPT !.event = outcome]

\* logEvent returns: a failed insert is logged and nothing else, the redirect
\* follows
AfterEvent(q, outcome) ==
  RespondRedirect([q EXCEPT !.event = outcome,
                            !.eventWrites = IF outcome = "ok" THEN @ + 1 ELSE @])

\* the insert of the event settles
EventReturn(q, outcome) ==
  /\ q.pc = "event"
  /\ events' = IF outcome = "ok" THEN Add(events, EventRow(q)) ELSE events
  /\ reqs' = Replace(reqs, q, AfterEvent(q, outcome))
  /\ UNCHANGED <<config, call, reports, leads, outbox>>

\* ------------------------------------------------------------- GET /health

\* Health that logs an event
Health_LogsEvent ==
  /\ BagCardinality(reqs) < MaxReqs
  /\ reqs' = Add(reqs, Respond(NewRequest("health", Undefined), 200, FALSE,
                               NoReport, "", <<>>))
  /\ events' = Add(events, [event_type |-> <<"h">>, email |-> Null, url_hash |-> Null,
                            domain |-> Null, recommended_tier |-> Null,
                            meta |-> [user_agent |-> Null, referer |-> Null]])
  /\ UNCHANGED <<config, call, reports, leads, outbox>>

Health ==
  /\ BagCardinality(reqs) < MaxReqs
  /\ reqs' = Add(reqs, Respond(NewRequest("health", Undefined), 200, FALSE,
                               NoReport, "", <<>>))
  /\ UNCHANGED <<config, call, tables, outbox>>

\* ------------------------------------------------------- the specification

Next ==
  \/ \E body \in Bodies : ReceiveAnalyze(body)
  \/ \E q \in BagToSet(reqs), o \in MxOutcomes : MxReturn(q, o)
  \/ \E q \in BagToSet(reqs), o \in DbOutcomes : LookupReturn(q, o)
  \/ \E q \in BagToSet(reqs), o \in DbOutcomes : InsertReturn(q, o)
  \/ \E q \in BagToSet(reqs), o \in DbOutcomes : LeadReturn(q, o)
  \/ \E q \in BagToSet(reqs), o \in SendOutcomes : SendReturn(q, o)
  \/ \E query \in Queries : ReceiveRedirect(query)
  \/ \E q \in BagToSet(reqs), o \in DbOutcomes : EventReturn(q, o)
  \/ Health

Spec == Init /\ [][Next]_vars

\* a collaborator call returns or fails: the resolver, the tables, the mail
\* client
CollaboratorReturns ==
  \/ \E q \in BagToSet(reqs), o \in MxOutcomes : MxReturn(q, o)
  \/ \E q \in BagToSet(reqs), o \in DbOutcomes : LookupReturn(q, o)
  \/ \E q \in BagToSet(reqs), o \in DbOutcomes : InsertReturn(q, o)
  \/ \E q \in BagToSet(reqs), o \in DbOutcomes : LeadReturn(q, o)
  \/ \E q \in BagToSet(reqs), o \in SendOutcomes : SendReturn(q, o)
  \/ \E q \in BagToSet(reqs), o \in DbOutcomes : EventReturn(q, o)

\* the requests of the fair server, one for each path through a handler: a
\* body without email, with a malformed email, with an unparseable website,
\* with a business name that is no string, a complete one, and one with a
\* name that is no string; a query without destination and a tracked link
FairBodies ==
  Bodies \cap
    { Body(Undefined, Undefined, Undefined, Undefined, Undefined),
      Body(Str(EmailBad), Str(SiteBad), Undefined, Undefined, Undefined),
      Body(Str(EmailA), Str(SiteBad), Bool(TRUE), Undefined, Undefined),
      Body(Undefined, Str(SiteA), Undefined, Num(5), Undefined),
      Body(Str(EmailA), Str(SiteA), Bool(TRUE), Undefined, Undefined),
      Body(Str(EmailA), Str(SiteB), Bool(FALSE), Str(<<" ">>), Num(7)) }

FairQueries == {query \in Queries : query.to = Undefined \/ query.to = Str(DestOk)}

FairNext ==
  \/ \E body \in FairBodies : ReceiveAnalyze(body)
  \/ \E query \in FairQueries : ReceiveRedirect(query)
  \/ Health
  \/ CollaboratorReturns

\* the server with collaborators that always settle the calls made to them
FairSpec == Init /\ [][FairNext]_vars /\ WF_vars(CollaboratorReturns)

\* ------------------------------------------------------- the email bodies

\* escapeHtml(str): the five characters HTML gives a meaning are replaced
RECURSIVE escapeHtml(_)
escapeHtml(s) ==
  IF s = <<>> THEN <<>>
  ELSE (CASE Head(s) = "&"  -> <<"&", "a", "m", "p", ";">>
          [] Head(s) = "<"  -> <<"&", "l", "t", ";">>
          [] Head(s) = ">"  -> <<"&", "g", "t", ";">>
          [] Head(s) = "\"" -> <<"&", "q", "u", "o", "t", ";">>
          [] Head(s) = "'"  -> <<"&", "#", "0", "3", "9", ";">>
          [] OTHER          -> <<Head(s)>>) \o escapeHtml(Tail(s))

\* formatUsd(amount) for an amount in cents: "$" and the amount with two decimals
formatUsd(cents) ==
  <<"$">> \o NatToString(cents \div 100) \o <<".">>
         \o <<DigitChar((cents % 100) \div 10), DigitChar(cents % 10)>>

CompanySite ==
  <<"h", "t", "t", "p", "s", ":", "/", "/", "s", "h", "o", "r", "e", "l", "i", "n", "e",
    "d", "e", "v", "c", "o", ".", "c", "o", "m">>

\* the destination of the call-to-action link
ContactUrl == CompanySite \o <<"/", "c", "o", "n", "t", "a", "c", "t">>

SupportMailto ==
  <<"m", "a", "i", "l", "t", "o", ":", "s", "u", "p", "p", "o", "r", "t", "@", "s", "h",
    "o", "r", "e", "l", "i", "n", "e", "d", "e", "v", "c", "o", ".", "c", "o", "m">>

CtaBookCall == <<"c", "t", "a", "_", "b", "o", "o", "k", "_", "c", "a", "l", "l">>

NoQuery == Query(Undefined, Undefined, Undefined, Undefined, Undefined, Undefined, Undefined)

NoHref == Href(<<>>, NoQuery)

\* one line of the text body, one element of the HTML body: the fixed words
\* that introduce it, the value it shows, the URL it carries
Part(words, value, href) == [words |-> words, value |-> value, href |-> href]

UnknownWebsite ==
  <<"U", "n", "k", "n", "o", "w", "n", " ", "W", "e", "b", "s", "i", "t", "e">>

NotAvailable == <<"N", "o", "t", " ", "a", "v", "a", "i", "l", "a", "b", "l", "e">>

\* buildEmailText({ businessNameValue, websiteValue, report }): the lines that
\* show a value or a URL, in order; the lines of fixed prose show none
buildEmailText(businessNameValue, websiteValue, report) ==
  LET rec == recommendPackageFromReport(report) IN
    <<Part("Business: ", OrElse(businessNameValue, Str(UnknownBusiness)), NoHref),
      Part("Website: ", OrElse(websiteValue, Str(UnknownWebsite)), NoHref)>>
    \o (IF report.score # Undefined /\ report.score # Null
        THEN <<Part("Score: ", Str(ToStr(report.score) \o <<"/", "1", "0", "0">>), NoHref)>>
        ELSE <<>>)
    \o <<Part("Summary:", OrElse(report.summary, Str(NotAvailable)), NoHref),
         Part(rec.packageName, Undefined, NoHref),
         Part("Price: ", Str(formatUsd(rec.price * 100)), NoHref),
         Part("Discount: ", Num(rec.discountPercent), NoHref),
         Part("Discounted Price: ", Str(formatUsd(rec.discountedPrice)), NoHref),
         Part("Discount Code: ", Str(rec.code), NoHref),
         Part("Shoreline Dev Co: ", Undefined, Href(CompanySite, NoQuery))>>

YourBusiness ==
  <<"Y", "o", "u", "r", " ", "B", "u", "s", "i", "n", "e", "s", "s">>

\* buildEmailHtml({ businessNameValue, websiteValue, report }): the elements
\* that show a value or carry a URL, in order
buildEmailHtml(businessNameValue, websiteValue, report) ==
  LET rec   == recommendPackageFromReport(report)
      score == Coalesce(report.score, Null)
  IN  <<Part("business", Str(escapeHtml(ToStr(OrElse(businessNameValue, Str(YourBusiness))))),
             NoHref),
        Part("website", Str(escapeHtml(ToStr(OrElse(websiteValue, Str(<<>>))))), NoHref),
        Part("scoreLabel",
             IF score = Null THEN Str(<<"N", "/", "A">>)
             ELSE Str(ToStr(score) \o <<"/", "1", "0", "0">>), NoHref),
        Part("summary",
             Str(escapeHtml(ToStr(OrElse(report.summary, Str(NotAvailable \o <<".">>))))),
             NoHref),
        Part(rec.packageName, Undefined, NoHref),
        Part("recPrice", Str(formatUsd(rec.price * 100)), NoHref),
        Part("recDiscounted", Str(formatUsd(rec.discountedPrice)), NoHref),
        Part("discountPercent", Num(rec.discountPercent), NoHref),
        Part("recCode", Str(escapeHtml(rec.code)), NoHref),
        Part("Book a quick review call", Undefined,
             buildTrackedUrl(ContactUrl, CtaBookCall, report, rec)),
        Part("Reply for help", Undefined, Href(SupportMailto, NoQuery))>>

\* ------------------------------------------------- the helpers on their own

\* the largest score of a report given to recommendPackageFromReport
MaxScore == 100

\* a report as the helpers receive it
ReportWithScore(score) ==
  [url_hash |-> hashString(SiteA), domain |-> SiteA, score |-> score,
   summary |-> Str(FakeSummary)]

\* the scores: the integers up to MaxScore, a missing one, a null one as a
\* row of the reports table holds it, one that is not a number, and strings:
\* a decimal one, an empty one and one of letters
Scores ==
  {Num(n) : n \in 0..MaxScore}
    \cup {Undefined, Null, NaN, Str(<<"7", "0">>), Str(<<>>), Str(<<"a">>)}

NewCall(fn, arg) ==
  [fn |-> fn, arg |-> arg, done |-> FALSE, result |-> Undefined,
   again |-> FALSE, previous |-> Undefined]

\* what the handler gives the two builders of the email bodies
EmailArgs ==
  {[businessNameValue |-> b, websiteValue |-> Str(SiteA), report |-> ReportWithScore(s)] :
     b \in {Str(<<"B", "&", "o">>), Str(SiteA)}, s \in {Num(65), Null, Undefined}}

\* the business names a body carries, as businessName and as business_name
BusinessNames ==
  {<<Undefined, Undefined>>, <<Str(<<>>), Undefined>>, <<Str(<<" ">>), Undefined>>,
   <<Str(<<" ", "B", "o", " ">>), Undefined>>, <<Undefined, Str(<<"C", "o", " ">>)>>,
   <<Str(<<>>), Str(<<"C", "o", " ">>)>>}

\* the contact names a body carries
ContactNames ==
  {Undefined, Null, Str(<<>>), Str(<<" ">>), Str(<<"A", "l", " ">>), Num(7)}

\* a request as saveLead finds it: validated, normalized, and holding the
\* report of the cache or of the analysis
LeadRequests ==
  {[AfterMx(StartAnalyze(NewRequest("analyze",
        [Body(Str(EmailA), Str(SiteA), Undefined, bn[1], n)
           EXCEPT !.business_name = bn[2]])), "records")
      EXCEPT !.report = ReportWithScore(score)] :
     bn \in BusinessNames, n \in ContactNames, score \in {Num(90), Num(65), Num(10)}}

HelperCalls ==
  {NewCall("recommendPackageFromReport", ReportWithScore(s)) : s \in Scores}
    \cup {NewCall("saveLead", q) : q \in LeadRequests}
    \cup {NewCall("buildEmailText", a) : a \in EmailArgs}
    \cup {NewCall("buildEmailHtml", a) : a \in EmailArgs}

HelperInit ==
  /\ urlHashUnique = FALSE
  /\ resendConfigured = FALSE
  /\ reports = EmptyBag
  /\ leads = EmptyBag
  /\ events = EmptyBag
  /\ outbox = EmptyBag
  /\ reqs = EmptyBag
  /\ call \in HelperCalls

\* the helper returns
Return(result) ==
  /\ ~call.done
  /\ call' = [call EXCEPT !.done = TRUE, !.result = result]
  /\ UNCHANGED <<config, tables, outbox, reqs>>

CallRecommend ==
  /\ call.fn = "recommendPackageFromReport"
  /\ Return(recommendPackageFromReport(call.arg))

\* another report with the same score: another site, no summary
SameScore(report) ==
  [report EXCEPT !.url_hash = hashString(SiteB), !.domain = SiteB, !.summary = Null]

\* the helper is applied once more, to the same report or to another one
\* with the same score
CallRecommendAgain ==
  /\ call.fn = "recommendPackageFromReport"
  /\ call.done /\ ~call.again
  /\ \E report \in {call.arg, SameScore(call.arg)} :
       call' = [call EXCEPT !.again = TRUE, !.previous = call.result,
                            !.arg = report,
                            !.result = recommendPackageFromReport(report)]
  /\ UNCHANGED <<config, tables, outbox, reqs>>

\* saveLead builds its row; an exception while building it is caught
CallBuildLeadRow ==
  /\ call.fn = "saveLead"
  /\ Return(IF CallSaveLead(call.arg).lead = "exception" THEN Null
            ELSE LeadRow(call.arg))

CallBuildEmailText ==
  /\ call.fn = "buildEmailText"
  /\ Return(buildEmailText(call.arg.businessNameValue, call.arg.websiteValue,
                           call.arg.report))

CallBuildEmailHtml ==
  /\ call.fn = "buildEmailHtml"
  /\ Return(buildEmailHtml(call.arg.businessNameValue, call.arg.websiteValue,
                           call.arg.report))

HelperNext ==
  \/ CallRecommend
  \/ CallRecommendAgain
  \/ CallBuildLeadRow
  \/ CallBuildEmailText
  \/ CallBuildEmailHtml

HelperSpec == HelperInit /\ [][HelperNext]_vars

\* ------------------------------------------------------------- the claims

Requests == BagToSet(reqs)

Analyze(q)  == q.kind = "analyze"
Redirect(q) == q.kind = "redirect"
Done(q)     == q.pc = "done"

\* the domain the three valid websites of Bodies stand for, written out
ExpectedDomain(website) ==
  IF website \in {Str(SiteA), Str(SiteAVariant)} THEN SiteA
  ELSE IF website = Str(SiteB) THEN SiteB
  ELSE <<>>

\* the sum of a counter over all requests
RECURSIVE SumOf(_, _)
SumOf(field, S) ==
  IF S = {} THEN 0
  ELSE LET q == CHOOSE r \in S : TRUE
       IN  CopiesIn(q, reqs) * q[field] + SumOf(field, S \ {q})

\* every row of a table and every call of the mail client is the one write
\* or call of some request
WritesAccounted ==
  /\ BagCardinality(reports) = SumOf("reportWrites", Requests)
  /\ BagCardinality(leads) = SumOf("leadWrites", Requests)
  /\ BagCardinality(events) = SumOf("eventWrites", Requests)
  /\ BagCardinality(outbox) = Copies(reqs, {q \in Requests : q.send \in SendOutcomes})

\* the request has written nothing and has not called the mail function
NoSideEffects(q) ==
  /\ q.reportWrites = 0
  /\ q.leadWrites = 0
  /\ q.eventWrites = 0
  /\ q.sendCalls = 0
  /\ q.insert = "none"
  /\ q.lead = "none"
  /\ q.send = "none"

\* the response is 200 with the report of the request's own website, a row
\* of the reports table
ServedItsReport(q) ==
  /\ q.resp.status = 200
  /\ q.resp.cached = (q.lookup = "hit")
  /\ q.resp.report.domain = ExpectedDomain(q.input.website)
  /\ q.resp.report.url_hash = hashString(ExpectedDomain(q.input.website))
  /\ BagIn(q.resp.report, reports)

\* C1: after any interleaving of POST /api/analyze requests the reports
\* table holds at most one row per fingerprint (url_hash).
C1_OneReportPerFingerprint ==
  \A row \in BagToSet(reports) : MatchCount(row.url_hash) = 1

\* C2: a request whose insert is rejected by the uniqueness conflict re-reads
\* the row and answers 200 with the report of that fingerprint and domain,
\* never an error.
C2_ConflictLoserIsServed ==
  \A q \in Requests :
    (Done(q) /\ q.insert = "conflict") => ServedItsReport(q)

\* C3: a request that finds a stored report answers 200 with cached = true
\* and the stored report, and no step it takes changes the reports table,
\* whatever refresh is.
C3_CacheHitWritesNothing ==
  /\ [](\A q \in Requests :
          q.lookup = "hit" =>
            /\ q.reportWrites = 0
            /\ q.insert = "none"
            /\ Done(q) => (ServedItsReport(q) /\ q.resp.cached))
  /\ [][\A q \in BagToSet(reqs') :
          (q.lookup = "hit" /\ CopiesIn(q, reqs') > CopiesIn(q, reqs))
            => reports' = reports]_vars

C3_Witness ==
  \E q \in Requests :
    /\ q.lookup = "hit" /\ Done(q)
    /\ q.input.refresh = Bool(TRUE)
    /\ q.send = "ok"
    /\ q.resp.cached /\ q.resp.report.domain = SiteA

\* C4: a request that finds no stored report and whose insert succeeds adds
\* exactly one row, with the normalized domain and its digest, and answers 200
\* with cached = false and that row.
C4_MissInsertsOneRow ==
  /\ BagCardinality(reports) = Copies(reqs, {q \in Requests : q.insert = "ok"})
  /\ \A q \in Requests :
       q.insert = "ok" =>
         /\ q.lookup = "miss"
         /\ q.reportWrites = 1
         /\ q.report.domain = ExpectedDomain(q.input.website)
         /\ q.report.url_hash = hashString(ExpectedDomain(q.input.website))
         /\ BagIn(q.report, reports)
         /\ Done(q) => /\ ServedItsReport(q)
                       /\ ~q.resp.cached
                       /\ q.resp.report = q.report

C4_Witness ==
  \E q \in Requests :
    /\ q.insert = "ok" /\ Done(q)
    /\ q.input.website = Str(SiteAVariant)
    /\ q.resp.status = 200 /\ ~q.resp.cached
    /\ q.resp.report.domain = SiteA
    /\ BagCardinality(reports) = 1 /\ BagIn(q.resp.report, reports)

\* the request fails one of the handler's validations: a field is missing,
\* the cleaned email is not local@domain.tld, its domain has no mail
\* exchanger, or the website is blank or unparseable
FailsValidation(q) ==
  LET b == q.input IN
    \/ ~Truthy(b.email)
    \/ ~Truthy(b.website)
    \/ ~isValidEmailFormat(Str(ToLowerCase(Trim(ToStr(b.email)))))
    \/ q.mx \in {"empty", "error"}
    \/ b.website \in {Str(SiteBlank), Str(SiteBad)}

\* C5: every request that fails validation is answered 400 and writes no
\* report, lead or event and sends no email.
C5_ValidationFailureIs400 ==
  \A q \in Requests :
    (Analyze(q) /\ Done(q) /\ FailsValidation(q))
      => (q.resp.status = 400 /\ NoSideEffects(q))

\* C6: when the mail-exchanger lookup of a well-formed email raises an error
\* or returns no record, the request is answered 400 with the
\* unreachable-domain message, never 500, and nothing is written.
C6_NoMxIs400 ==
  /\ WritesAccounted
  /\ \A q \in Requests :
       q.mx \in {"empty", "error"} =>
         /\ Done(q)
         /\ q.resp.status = 400
         /\ q.resp.error = "unreachable_domain"
         /\ q.lookup = "none"
         /\ NoSideEffects(q)

C6_Witness ==
  \E q1, q2 \in Requests :
    /\ q1.mx = "error" /\ q1.resp.status = 400
    /\ q2.mx = "empty" /\ q2.resp.status = 400
    /\ isValidEmailFormat(Str(q1.cleanEmail))
    /\ BagCardinality(reports) + BagCardinality(leads) + BagCardinality(events) = 0

\* the lookup or the insert of the request failed with a storage error
CacheFailed(q) ==
  \/ q.lookup \in {"error", "threw", "multiple"}
  \/ q.insert \in {"error", "threw", "conflict"}

\* C7: when the report lookup or the report insert fails, the request is
\* answered 500 and neither writes a lead nor sends an email, before or after.
C7_CacheFailureIs500 ==
  /\ BagCardinality(leads) = SumOf("leadWrites", Requests)
  /\ BagCardinality(outbox) = Copies(reqs, {q \in Requests : q.send \in SendOutcomes})
  /\ \A q \in Requests :
       CacheFailed(q) =>
         /\ Done(q)
         /\ q.resp.status = 500
         /\ q.lead = "none" /\ q.leadWrites = 0
         /\ q.send = "none" /\ q.sendCalls = 0

C7_Witness ==
  \E q1, q2 \in Requests :
    /\ q1.lookup = "error" /\ q1.resp.status = 500
    /\ q2.insert = "threw" /\ q2.resp.status = 500
    /\ BagCardinality(leads) = 0 /\ BagCardinality(outbox) = 0

\* the lead write of the request failed
LeadFailed(q) == q.lead \in {"error", "threw", "exception"}

\* C8: when the lead insert fails, the request still answers 200 with its
\* report and cached flag, and on a cache miss the email send is still
\* attempted.
C8_LeadFailureKeepsResponse ==
  \A q \in Requests :
    LeadFailed(q) =>
      /\ q.pc \in {"send", "done"}
      /\ q.leadWrites = 0
      /\ q.lookup = "miss" => q.sendCalls = 1
      /\ Done(q) => ServedItsReport(q)

C8_Witness ==
  \E q1, q2 \in Requests :
    /\ q1.lead = "error" /\ Done(q1) /\ q1.lookup = "miss"
    /\ q1.send = "ok" /\ q1.resp.status = 200
    /\ q2.lead = "threw" /\ Done(q2) /\ q2.lookup = "hit"
    /\ q2.resp.status = 200 /\ q2.resp.cached

\* C9: every request answered 200 while lead storage works adds exactly one
\* lead row, whether or not a lead with that email and fingerprint exists.
C9_EveryServedRequestAddsOneLead ==
  \A q \in Requests :
    (Analyze(q) /\ Done(q) /\ q.resp.status = 200 /\ q.lead \notin {"error", "threw"})
      => q.leadWrites = 1

\* the destination as the claim's words test it: the parameter itself
DestinationRejectedAsGiven(q) ==
  LET to == q.input.to IN
    \/ ~Truthy(to)
    \/ Trim(to.s) = <<>>
    \/ ~HasHttpPrefix(to.s)

\* the destination as the handler tests it: the parameter without its
\* surrounding whitespace
DestinationRejectedTrimmed(q) ==
  LET to == q.input.to IN
    \/ ~Truthy(to)
    \/ Trim(to.s) = <<>>
    \/ ~HasHttpPrefix(Trim(to.s))

\* the request was refused: 400, no redirect, no event
Refused(q) ==
  /\ Done(q)
  /\ q.resp.status = 400
  /\ q.resp.location = <<>>
  /\ q.event = "none"
  /\ q.eventWrites = 0

\* C10 as stated: a destination that is missing, blank or does not begin with
\* http:// or https:// is answered 400, with no redirect and no event row.
C10_BadDestinationRefused ==
  \A q \in Requests :
    (Redirect(q) /\ Done(q) /\ DestinationRejectedAsGiven(q)) => Refused(q)

\* C10 as amended: a destination that, once its surrounding whitespace is
\* removed, is empty or does not begin with http:// or https:// (in any letter
\* case) is answered 400, with no redirect and no event row.
C10_BadTrimmedDestinationRefused ==
  /\ BagCardinality(events) = SumOf("eventWrites", Requests)
  /\ \A q \in Requests :
       (Redirect(q) /\ DestinationRejectedTrimmed(q)) => Refused(q)

C10_Witness ==
  \E q1, q2 \in Requests :
    /\ Redirect(q1) /\ q1.input.to = Str(DestScript) /\ q1.resp.status = 400
    /\ Redirect(q2) /\ q2.input.to = Undefined /\ q2.resp.status = 400
    /\ BagCardinality(events) = 0

\* a query parameter as the event row carries it: its text without the
\* surrounding whitespace, null when absent or blank
Carried(v) == IF ~Truthy(v) \/ Trim(v.s) = <<>> THEN Null ELSE Str(Trim(v.s))

\* some event row carries the event type of e ("click" when e is absent or
\* blank) and the h, d and t parameters of the request
EventCarriesQuery(q) ==
  \E row \in BagToSet(events) :
    /\ row.event_type = (IF Carried(q.input.e) = Null THEN Click ELSE Carried(q.input.e).s)
    /\ row.url_hash = Carried(q.input.h)
    /\ row.domain = Carried(q.input.d)
    /\ row.recommended_tier = Carried(q.input.t)

\* the request is not answered while its event write is pending, is never
\* redirected without that write having settled, and when the write succeeds
\* it is the request's one event row and the answer is a 302 to location
LoggedThenRedirected(q, location) ==
  /\ q.pc = "event" => (q.responses = 0 /\ q.resp = NoResponse)
  /\ q.resp.status = 302 => q.event # "none"
  /\ q.event = "ok" =>
       /\ q.eventWrites = 1
       /\ EventCarriesQuery(q)
       /\ Done(q) /\ q.responses = 1
       /\ q.resp.status = 302
       /\ q.resp.location = location

\* C11 as stated: a GET /r request whose `to` begins with http:// or https://
\* writes, when event storage works, exactly one event row with the event
\* type of e and the h/d/t fields, and only then redirects (302) to exactly
\* `to`.
C11_LoggedThenRedirectedToExactly ==
  /\ BagCardinality(events) = Copies(reqs, {q \in Requests : q.event = "ok"})
  /\ \A q \in Requests :
       (Redirect(q) /\ IsString(q.input.to) /\ HasHttpPrefix(q.input.to.s))
         => LoggedThenRedirected(q, q.input.to.s)

\* C11 as amended: a GET /r request whose `to`, without its surrounding
\* whitespace, begins with http:// or https:// writes, when event storage
\* works, exactly one event row with the event type of e and the h/d/t
\* fields, and only then redirects (302) to `to` without its surrounding
\* whitespace.
C11_LoggedThenRedirectedToTrimmed ==
  /\ BagCardinality(events) = Copies(reqs, {q \in Requests : q.event = "ok"})
  /\ \A q \in Requests :
       (Redirect(q) /\ IsString(q.input.to) /\ HasHttpPrefix(Trim(q.input.to.s)))
         => LoggedThenRedirected(q, Trim(q.input.to.s))

C11_Witness ==
  \E q1, q2 \in Requests :
    /\ Redirect(q1) /\ q1.input.to = Str(DestOk) /\ q1.event = "ok"
    /\ q1.resp.status = 302 /\ q1.resp.location = DestOk
    /\ Redirect(q2) /\ q2.input.to = Str(DestTrailed) /\ q2.event = "ok"
    /\ q2.resp.status = 302 /\ q2.eventType = <<"c">>
    /\ BagCardinality(events) = 2

\* C12: when the event insert fails, by a returned error or a thrown
\* exception, a GET /r request with a valid destination is still answered with
\* a 302 redirect to the destination, never with an error.
C12_EventFailureStillRedirects ==
  \A q \in Requests :
    (Redirect(q) /\ q.event \in {"error", "threw"}) =>
      /\ Done(q) /\ q.responses = 1
      /\ q.resp.status = 302
      /\ q.resp.location = Trim(q.input.to.s)
      /\ q.eventWrites = 0

C12_Witness ==
  \E q1, q2 \in Requests :
    /\ Redirect(q1) /\ q1.event = "error" /\ q1.resp.status = 302
    /\ q1.resp.location = DestOk
    /\ Redirect(q2) /\ q2.event = "threw" /\ q2.resp.status = 302
    /\ BagCardinality(events) = 0

\* recommendPackageFromReport has been applied to a report and has returned
Recommended == call.fn = "recommendPackageFromReport" /\ call.done

\* C13: for every numeric score s the tier is Starter when s >= 85, Business
\* when 60 <= s < 85 and Premium when s < 60; 85 gives Starter, 84 and 60
\* Business, 59 Premium.
C13_TierByScore ==
  (Recommended /\ call.arg.score.t = "number" /\ call.arg.score # NaN) =>
    LET s == call.arg.score.n
        tier == call.result.tier
    IN  /\ s >= 85 => tier = Starter
        /\ (60 <= s /\ s < 85) => tier = Business
        /\ s < 60 => tier = Premium
        /\ s = 85 => tier = Starter
        /\ s \in {84, 60} => tier = Business
        /\ s = 59 => tier = Premium

C13_Witness ==
  /\ Recommended
  /\ call.arg.score = Num(85)
  /\ call.result.tier = Starter

\* C14: for a report whose score is absent, undefined or null as read back
\* from the reports table, the tier is Business.
C14_AbsentScoreIsBusiness ==
  (Recommended /\ call.arg.score \in {Undefined, Null}) => call.result.tier = Business

\* the catalog of the claim: the price of a tier, and its discounted price in
\* cents
CatalogPrice(tier) ==
  CASE tier = Starter -> 299 [] tier = Business -> 499 [] tier = Premium -> 899

CatalogDiscountedCents(tier) ==
  CASE tier = Starter -> 25415 [] tier = Business -> 42415 [] tier = Premium -> 76415

\* C15: for every tier the base price is the catalog price (299, 499, 899)
\* and the discounted price is the base price less 15 percent, rounded half-up
\* to the cent: 254.15, 424.15 and 764.15; a score of 70 gives 424.15.
C15_CatalogPriceAndDiscount ==
  Recommended =>
    /\ call.result.tier \in {Starter, Business, Premium}
    /\ call.result.price = CatalogPrice(call.result.tier)
    /\ call.result.discountPercent = 15
    /\ call.result.discountedPrice = CatalogDiscountedCents(call.result.tier)
    /\ call.result.discountedPrice = call.result.price * (100 - 15)
    /\ call.arg.score = Num(70) => call.result.discountedPrice = 42415

C15_Witness ==
  /\ Recommended
  /\ call.arg.score = Num(70)
  /\ call.result.price = 499
  /\ call.result.discountedPrice = 42415

\* C16: when the mail client is not configured, sending a report email is a
\* no-op: no send is attempted, nothing is raised, and the request still
\* answers 200 with its report.
C16_UnconfiguredSendIsNoOp ==
  ~resendConfigured =>
    /\ BagCardinality(outbox) = 0
    /\ \A q \in Requests :
         /\ q.pc # "send"
         /\ q.send \notin SendOutcomes
         /\ q.sendCalls > 0 =>
              /\ q.send = "skipped"
              /\ Done(q) /\ q.responses = 1
              /\ ServedItsReport(q)

C16_Witness ==
  /\ ~resendConfigured
  /\ \E q1, q2 \in Requests :
       /\ q1.lookup = "miss" /\ q1.send = "skipped" /\ q1.resp.status = 200
       /\ q2.lookup = "hit" /\ q2.send = "skipped" /\ q2.resp.status = 200
       /\ q2.resp.cached

\* C17: when the mail client's send fails, the failure stays inside the send
\* operation: the request still answers 200 with its report, and the report
\* and lead rows it wrote stay in place.
C17_SendFailureIsCaught ==
  /\ BagCardinality(reports) = SumOf("reportWrites", Requests)
  /\ BagCardinality(leads) = Copies(reqs, {q \in Requests : q.lead = "ok"})
  /\ \A q \in Requests :
       q.send = "threw" =>
         /\ Done(q) /\ q.responses = 1
         /\ ServedItsReport(q)
         /\ q.insert = "ok" => (q.reportWrites = 1 /\ BagIn(q.report, reports))
         /\ q.lead = "ok" => (q.leadWrites = 1 /\ BagIn(LeadRow(q), leads))

C17_Witness ==
  \E q \in Requests :
    /\ q.send = "threw" /\ q.insert = "ok" /\ q.lead = "ok"
    /\ Done(q) /\ q.resp.status = 200 /\ ~q.resp.cached
    /\ BagCardinality(reports) = 1 /\ BagCardinality(leads) = 1

\* the request asks for a refresh and has found a stored report
RefreshHit(q) == q.lookup = "hit" /\ q.input.refresh = Bool(TRUE)

SchemesWritten ==
  { <<>>,
    <<"h", "t", "t", "p", ":", "/", "/">>,
    <<"h", "t", "t", "p", "s", ":", "/", "/">>,
    <<"H", "T", "T", "P", ":", "/", "/">>,
    <<"H", "t", "t", "p", "S", ":", "/", "/">> }

WwwWritten == { <<>>, <<"w", "w", "w", ".">>, <<"W", "W", "W", ".">>, <<"W", "w", "w", ".">> }

HostsWritten(host) ==
  IF host = SiteA THEN {SiteA, <<"A", ".", "C", "O">>, <<"a", ".", "C", "o">>}
  ELSE IF host = SiteB THEN {SiteB, <<"B", ".", "C", "O">>}
  ELSE {}

WebsiteVariants(host) ==
  {s \o w \o h : s \in SchemesWritten, w \in WwwWritten, h \in HostsWritten(host)}

\* the variants of the two websites of Bodies
Variants == [host \in {SiteA, SiteB} |-> WebsiteVariants(host)]

\* every variant of a website normalizes to its domain and so to its digest
VariantsNormalizeAlike ==
  \A host \in {SiteA, SiteB} : \A v \in Variants[host] :
    /\ normalizeUrl(Str(v)) = Returned(Str(host))
    /\ hashString(normalizeUrl(Str(v)).value.s) = hashString(host)

Rendered == call.fn \in {"buildEmailText", "buildEmailHtml"} /\ call.done

\* the body carries the call-to-action link through /r on the backend
HasTrackedCta(body) ==
  \E i \in 1..Len(body) :
    /\ body[i].href.base = PublicBackendUrl \o <<"/", "r">>
    /\ body[i].href.query.to = Str(ContactUrl)

\* the body carries the destination itself as a link
ExposesDestination(body) ==
  \E i \in 1..Len(body) : body[i].href.base = ContactUrl

\* C20: the plain-text body and the HTML body both carry the tracked
\* call-to-action link through /r, and neither carries the destination as a
\* direct link.
C20_BothBodiesCarryTrackedLink ==
  Rendered => (HasTrackedCta(call.result) /\ ~ExposesDestination(call.result))

\* the event rows that GET /r requests can write: each is given by the query
\* of one request and by nothing else
EventRowsOfQueries ==
  {EventRow(StartRedirect(NewRequest("redirect", query))) : query \in Queries}

\* C21: every event row has no email, and the content of the events table is
\* given by the queries of the GET /r requests alone, whatever emails were
\* submitted.
C21_EventsCarryNoEmail ==
  /\ \A row \in BagToSet(events) : row.email = Null /\ row \in EventRowsOfQueries
  /\ \A q \in Requests : Analyze(q) => (q.event = "none" /\ q.eventWrites = 0)
  /\ BagCardinality(events) = Copies(reqs, {q \in Requests : Redirect(q) /\ q.event = "ok"})

C21_Witness ==
  \E q1, q2 \in Requests :
    /\ Analyze(q1) /\ q1.cleanEmail = EmailA /\ q1.lead = "ok" /\ Done(q1)
    /\ Redirect(q2) /\ q2.event = "ok" /\ q2.input.d = Str(SiteA)
    /\ BagCardinality(events) = 1
    /\ \A row \in BagToSet(events) : row.email = Null /\ row.domain = Str(SiteA)

\* the request has just taken a step
Stepped(q) == CopiesIn(q, reqs') > CopiesIn(q, reqs)

\* C22: no step of a GET /r request changes the reports or the leads table,
\* no step of a POST /api/analyze request changes the events table, and a
\* GET /health request changes none of the three.
C22_TableOwnership ==
  [][\A q \in BagToSet(reqs') :
       Stepped(q) =>
         /\ q.kind = "redirect" => (reports' = reports /\ leads' = leads)
         /\ q.kind = "analyze" => events' = events
         /\ q.kind = "health" => (reports' = reports /\ leads' = leads
                                   /\ events' = events)]_vars

C22_Witness ==
  \E q1, q2 \in Requests :
    /\ q1.kind = "health" /\ Done(q1)
    /\ q2.kind = "redirect" /\ q2.event = "ok"
    /\ BagCardinality(events) = 1
    /\ BagCardinality(reports) = 0 /\ BagCardinality(leads) = 0

\* the rows a response with status 200 returned for the fingerprint
ReturnedFor(urlHash) ==
  {q.resp.report : q \in {r \in Requests : /\ Analyze(r) /\ Done(r)
                                            /\ r.resp.status = 200
                                            /\ r.resp.report.url_hash = urlHash}}

\* C23: a report row, once stored, is never changed or removed, with or
\* without refresh, and every successful request for its fingerprint returns
\* that report: the same fingerprint, domain, score and summary.
C23_ReportsAreImmutable ==
  /\ [](/\ \A row \in BagToSet(reports) :
             /\ \A other \in Matching(row.url_hash) : other = row
             /\ \A report \in ReturnedFor(row.url_hash) :
                  /\ report.url_hash = row.url_hash /\ report.domain = row.domain
                  /\ report.score = row.score /\ report.summary = row.summary
        /\ \A q \in Requests :
             (Analyze(q) /\ Done(q) /\ q.resp.status = 200) =>
               BagIn(q.resp.report, reports))
  /\ [][\A row \in BagToSet(reports) :
          CopiesIn(row, reports') >= CopiesIn(row, reports)]_vars

\* a request with refresh is served the row an earlier request stored
C23_Witness ==
  \E q1, q2 \in Requests :
    /\ Analyze(q1) /\ q1.insert = "ok" /\ Done(q1) /\ q1.resp.status = 200
    /\ Analyze(q2) /\ q2.lookup = "hit" /\ Done(q2) /\ q2.resp.status = 200
    /\ q2.input.refresh = Bool(TRUE)
    /\ q2.resp.report = q1.resp.report
    /\ BagCardinality(reports) = 1 /\ BagIn(q1.resp.report, reports)

\* a score that is neither a finite number nor a string of decimal digits
NotANumber(v) ==
  /\ ~IsFinite(v)
  /\ ~(/\ IsString(v) /\ v.s # <<>>
        /\ \A i \in 1..Len(v.s) : v.s[i] \in Digits)

\* C24: for a score that is not a finite number (NaN, a non-numeric string)
\* the recommendation is still complete, with the default tier Business, the
\* base price 499 and the fixed discount of 15 percent with code BEACON15.
C24_InvalidScoreIsBusiness ==
  (Recommended /\ NotANumber(call.arg.score)) =>
    /\ call.result.tier = Business
    /\ call.result.packageName = PackageName(Business)
    /\ call.result.price = 499
    /\ call.result.discountPercent = 15
    /\ call.result.discountedPrice = 42415
    /\ call.result.code = DiscountCode

LeadBuilt == call.fn = "saveLead" /\ call.done /\ call.result # Null

\* C26: the discount does not depend on the tier: every recommendation has
\* discountPercent 15 and the code BEACON15, and every lead row records these
\* and a deadline of 48 hours, whatever tier was recommended.
C26_DiscountIsNotTierDependent ==
  /\ Recommended =>
       (call.result.discountPercent = 15 /\ call.result.code = DiscountCode)
  /\ LeadBuilt =>
       (/\ call.result.discount_deadline_hours = 48
        /\ call.result.recommended_discount_percent = 15
        /\ call.result.discount_code = DiscountCode)

C26_Witness ==
  /\ LeadBuilt
  /\ call.arg.report.score = Num(10)
  /\ call.result.recommended_tier = Premium
  /\ call.result.discount_deadline_hours = 48

\* absent, empty or whitespace-only
Blank(v) ==
  \/ v \in {Undefined, Null}
  \/ IsString(v) /\ \A i \in 1..Len(v.s) : v.s[i] \in Whitespace

\* the business name a body submits: businessName, or business_name when
\* businessName is absent or empty
SubmittedBusinessName(body) ==
  IF body.businessName \in {Undefined, Null, Str(<<>>)} THEN body.business_name
  ELSE body.businessName

\* C27: in a lead row the business name is the trimmed submitted business
\* name, or "Unknown Business" when that is absent, empty or whitespace-only;
\* the contact name is the trimmed submitted name, or null, never the
\* sentinel, when that is absent, empty or whitespace-only.
C27_LeadNames ==
  LeadBuilt =>
    LET submitted == SubmittedBusinessName(call.arg.input)
        name      == call.arg.input.name
    IN  /\ Blank(submitted) => call.result.business_name = Str(UnknownBusiness)
        /\ ~Blank(submitted) => call.result.business_name = Str(Trim(submitted.s))
        /\ Blank(name) => call.result.contact_name = Null
        /\ ~Blank(name) => call.result.contact_name = Str(Trim(name.s))

C27_Witness ==
  /\ LeadBuilt
  /\ call.arg.input.businessName = Str(<<" ", "B", "o", " ">>)
  /\ call.arg.input.name = Str(<<" ">>)
  /\ call.result.business_name = Str(<<"B", "o">>)
  /\ call.result.contact_name = Null

\* the lead row copies the report and the recommendation made from its score
SnapshotOf(row, report) ==
  /\ row.domain = report.domain
  /\ row.url_hash = report.url_hash
  /\ row.score = report.score
  /\ row.summary = report.summary
  /\ row.recommended_tier = TierOfScore(report.score)
  /\ row.recommended_price = CatalogPrice(TierOfScore(report.score))
  /\ row.recommended_discounted_price
       = CatalogDiscountedCents(TierOfScore(report.score))

\* the requests whose lead was written
LeadWriters == {q \in Requests : Analyze(q) /\ q.lead = "ok"}

\* C28: each lead row is a snapshot of its request: its domain, fingerprint,
\* score and summary are those of the report the request returns, its tier,
\* price and discounted price those recommended for that report's score, and
\* no later operation modifies or removes the row.
C28_LeadIsSnapshot ==
  /\ [](/\ \A row \in BagToSet(leads) :
             \E q \in LeadWriters : row.email = q.cleanEmail /\ SnapshotOf(row, q.report)
        /\ \A q \in LeadWriters :
             /\ \E row \in BagToSet(leads) :
                  row.email = q.cleanEmail /\ SnapshotOf(row, q.report)
             /\ Done(q) => (q.resp.status = 200 /\ q.resp.report = q.report)
        /\ BagCardinality(leads) = Copies(reqs, LeadWriters))
  /\ [][\A row \in BagToSet(leads) :
          CopiesIn(row, leads') >= CopiesIn(row, leads)]_vars

\* a lead written on a miss and one written on a hit, both served
C28_Witness ==
  \E q1, q2 \in LeadWriters :
    /\ q1.lookup = "miss" /\ Done(q1)
    /\ q2.lookup = "hit" /\ Done(q2) /\ q2.resp.report = q1.resp.report
    /\ BagCardinality(leads) = 2
    /\ \A row \in BagToSet(leads) :
         row.score = Num(65) /\ row.recommended_tier = Business

\* the requests answered 200 by POST /api/analyze
Served == {q \in Requests : Analyze(q) /\ Done(q) /\ q.resp.status = 200}

\* C29: whenever a POST /api/analyze request is answered 200, the reports
\* table holds, then and afterwards, a row with the fingerprint of the report
\* in the response, whatever other requests do in between.
C29_ServedReportIsStored ==
  \A q \in Served :
    /\ q.resp.report # NoReport
    /\ q.resp.report.url_hash = q.urlHash
    /\ MatchCount(q.resp.report.url_hash) >= 1
    /\ q.lookup = "hit" \/ q.insert = "ok"

\* two requests for one site race without the unique index: both are served
\* and both rows are stored
C29_Witness ==
  \E q1, q2 \in Served :
    /\ q1.insert = "ok" /\ q2.insert = "ok"
    /\ q1.input # q2.input
    /\ q1.resp.report.url_hash = hashString(SiteA)
    /\ MatchCount(hashString(SiteA)) = 2

\* the emails of Bodies that have the form local@domain.tld
WellFormedEmails == {Str(EmailA), Str(EmailARaw)}

\* C30: the steps of one POST /api/analyze request come in the order format
\* check, mail-exchanger lookup, normalization, report lookup and insert on a
\* miss, lead write, email send: no mail-exchanger lookup after a failed
\* format check, an invalid email is reported even when the website is
\* invalid too, the lead is written only after the cache step succeeded, and
\* the email is sent only after the lead write has finished.
C30_StepOrder ==
  \A q \in {r \in Requests : Analyze(r)} :
    /\ (q.pc = "mx" \/ q.mx # "none") => q.input.email \in WellFormedEmails
    /\ (q.input.email = Str(EmailBad) /\ Truthy(q.input.website)) =>
         (/\ Done(q) /\ q.resp.status = 400 /\ q.resp.error = "invalid_email"
          /\ q.mx = "none" /\ q.normalized = <<>>)
    /\ q.normalized # <<>> => q.mx = "records"
    /\ (q.pc = "lookup" \/ q.lookup # "none") =>
         (q.mx = "records" /\ q.urlHash = hashString(q.normalized))
    /\ (q.pc = "insert" \/ q.insert # "none") => q.lookup = "miss"
    /\ (q.pc = "lead" \/ q.lead # "none") =>
         (q.lookup = "hit" \/ (q.lookup = "miss" /\ q.insert = "ok"))
    /\ (q.pc = "send" \/ q.send # "none" \/ q.sendCalls > 0) =>
         (q.lead # "none" /\ q.pc # "lead")
    /\ q.pc = "lead" => (q.lead = "none" /\ q.sendCalls = 0)
    /\ q \in Served => q.lead # "none"

C30_Witness ==
  \E q1, q2 \in Requests :
    /\ Analyze(q1)
    /\ q1.input.email = Str(EmailBad) /\ q1.input.website = Str(SiteBad)
    /\ q1.resp.status = 400 /\ q1.resp.error = "invalid_email" /\ q1.mx = "none"
    /\ Analyze(q2) /\ Done(q2)
    /\ q2.mx = "records" /\ q2.lookup = "miss" /\ q2.insert = "ok"
    /\ q2.lead = "ok" /\ q2.send \in SendOutcomes /\ q2.sendCalls = 1

\* the lead insert or the email send of the request has been issued and has
\* not settled
SideEffectPending(q) == Analyze(q) /\ q.pc \in {"lead", "send"}

\* C31: the lead write and the email send are background side effects: the
\* response of POST /api/analyze is produced without waiting for them, so a
\* request whose lead insert or send has not settled is already answered.
C31_ResponseDoesNotWait ==
  \A q \in Requests : SideEffectPending(q) => (q.responses = 1 /\ q.resp.status = 200)

TrackedLinks == {LinkOk, LinkTrailed}

\* req.query of the request for each tracked link
QueryOf == [link \in TrackedLinks |-> Follow(link, Undefined, Undefined)]

\* the request is the GET /r of a visitor who followed the link
Followed(q, link) ==
  /\ Redirect(q)
  /\ [q.input EXCEPT !.userAgent = Undefined, !.referer = Undefined] = QueryOf[link]

\* the event rows with the given event type, fingerprint, domain and tier
EventsWith(eventType, urlHash, domain, tier) ==
  {row \in BagToSet(events) :
     /\ row.event_type = eventType /\ row.url_hash = urlHash
     /\ row.domain = domain /\ row.recommended_tier = tier}

\* C32 as stated: a request for a tracked link passes the destination check,
\* writes one event whose event type, fingerprint, domain and tier are the
\* values the link was built from, and is redirected to exactly the link's
\* destination.
C32_TrackedLinkRoundTrip ==
  \A link \in TrackedLinks : \A q \in Requests :
    Followed(q, link) =>
      /\ q.resp.status # 400
      /\ Done(q) =>
           /\ q.resp.status = 302 /\ q.resp.location = link.to
           /\ q.eventWrites = 1
           /\ EventsWith(link.eventType, Str(link.report.url_hash),
                         Str(link.report.domain), Str(link.rec.tier)) # {}

\* a value of the link as GET /r reads it: without its surrounding
\* whitespace, null when nothing is left
Stripped(s) == IF Trim(s) = <<>> THEN Null ELSE Str(Trim(s))

\* C32 as amended: a request for a tracked link passes the destination check
\* and is redirected to the link's destination without its surrounding
\* whitespace; when the event insert succeeds it writes one event whose event
\* type, fingerprint, domain and tier are the values the link was built from
\* without their surrounding whitespace: "click" for a blank event type, null
\* for another blank value.
C32_TrackedLinkRoundTripStripped ==
  /\ BagCardinality(events) = SumOf("eventWrites", Requests)
  /\ \A link \in TrackedLinks : \A q \in Requests :
       Followed(q, link) =>
         /\ q.resp.status # 400
         /\ q.to = Trim(link.to)
         /\ Done(q) => (q.resp.status = 302 /\ q.resp.location = Trim(link.to))
         /\ q.eventWrites = (IF q.event = "ok" THEN 1 ELSE 0)
         /\ q.event = "ok" =>
              EventsWith(IF Trim(link.eventType) = <<>> THEN Click ELSE Trim(link.eventType),
                         Stripped(link.report.url_hash),
                         Stripped(link.report.domain), Stripped(link.rec.tier)) # {}
         /\ Trim(link.to) = link.to => (Done(q) => q.resp.location = link.to)

C32_Witness ==
  \E q1, q2 \in Requests :
    /\ Followed(q1, LinkOk) /\ q1.event = "ok" /\ Done(q1)
    /\ q1.resp.status = 302 /\ q1.resp.location = DestOk
    /\ EventsWith(<<"c", "t", "a">>, Str(hashString(SiteA)), Str(SiteA), Str(Business)) # {}
    /\ Followed(q2, LinkTrailed) /\ q2.event = "ok" /\ Done(q2)
    /\ q2.resp.location # DestTrailed
    /\ BagCardinality(events) = 2

\* the number of times the request has called resend.emails.send
Sends(q) == IF q.pc = "send" \/ q.send \in SendOutcomes THEN 1 ELSE 0

\* the sends a finished request is to have made: one after a miss with a
\* successful insert, one after a hit with refresh exactly true, none
\* otherwise
PolicySends(q) ==
  IF q.resp.status # 200 THEN 0
  ELSE IF q.lookup = "miss" /\ q.insert = "ok" THEN 1
  ELSE IF q.lookup = "hit" /\ q.input.refresh = Bool(TRUE) THEN 1
  ELSE 0

\* C33 as stated: a request that misses the cache and inserts its report
\* attempts exactly one email send, a request that hits the cache attempts one
\* when refresh is exactly true and none otherwise, and a request answered 400
\* or 500 attempts none.
C33_EmailPolicy ==
  \A q \in Requests : (Analyze(q) /\ Done(q)) => Sends(q) = PolicySends(q)

\* C33 as amended: with a configured mail client the sends of a request are
\* those of the policy, each to the requester; without one no request sends
\* anything, and the mail function is still called once where the policy has
\* a send.
C33_EmailPolicyWhenConfigured ==
  /\ BagCardinality(outbox) = Copies(reqs, {q \in Requests : q.send \in SendOutcomes})
  /\ \A mail \in BagToSet(outbox) :
       \E q \in Requests : Analyze(q) /\ q.send = mail.outcome /\ mail.to = q.cleanEmail
  /\ \A q \in Requests :
       /\ ~Analyze(q) => (Sends(q) = 0 /\ q.sendCalls = 0)
       /\ (Analyze(q) /\ Done(q)) =>
            /\ q.sendCalls = PolicySends(q)
            /\ Sends(q) = (IF resendConfigured THEN PolicySends(q) ELSE 0)
            /\ q.resp.status \in {400, 500} => (q.sendCalls = 0 /\ q.send = "none")
       /\ Sends(q) <= q.sendCalls /\ q.sendCalls <= 1

\* a miss that mailed its report and a hit without refresh === true that did
\* not
C33_Witness ==
  /\ resendConfigured
  /\ \E q1, q2 \in Requests :
       /\ Analyze(q1) /\ Done(q1) /\ q1.insert = "ok" /\ q1.send = "ok"
       /\ Analyze(q2) /\ Done(q2) /\ q2.lookup = "hit"
       /\ q2.input.refresh = Str(<<"y">>) /\ q2.sendCalls = 0 /\ q2.send = "none"
       /\ BagCardinality(outbox) = 1

\* the statuses each endpoint answers with
Statuses(q) ==
  IF Analyze(q) THEN {200, 400, 500}
  ELSE IF Redirect(q) THEN {302, 400, 500}
  ELSE {200}

\* the request has its one response
Answered(q) == Done(q) /\ q.responses = 1 /\ q.resp.status \in Statuses(q)

\* C34: when every collaborator call eventually returns or fails, every
\* POST /api/analyze request is eventually answered once with 200, 400 or 500
\* and every GET /r request once with 302, 400 or 500: none is answered twice,
\* an answered request stays answered, and none is left unanswered, whatever
\* other requests are in flight.
C34_EveryRequestAnsweredOnce ==
  /\ [](\A q \in Requests :
          /\ q.responses <= 1
          /\ q.responses = 1 <=> Done(q)
          /\ Done(q) => Answered(q))
  /\ [][\A q \in Requests : Done(q) => CopiesIn(q, reqs') >= CopiesIn(q, reqs)]_vars
  /\ <>[](\A q \in Requests : Answered(q))

\* an analyze request and a redirect request in flight together, both answered
C34_Witness ==
  \E q1, q2 \in Requests :
    /\ Analyze(q1) /\ Answered(q1) /\ q1.resp.status = 200 /\ q1.send = "ok"
    /\ Redirect(q2) /\ Answered(q2) /\ q2.resp.status = 302 /\ q2.event = "error"
====
